---------------------------- MODULE Spec2Model ----------------------------
(***************************************************************************)
(* A model of the pakr package resolver (resolver.go, doc.go): the         *)
(* Resolver facade, its name-id map, its product map, the CNF encoding of  *)
(* the package index and the incremental SAT engine it drives.             *)
(***************************************************************************)
EXTENDS Integers, Sequences, FiniteSets, TLC

(***************************************************************************)
(* Bounds of the model.                                                    *)
(***************************************************************************)
\* the longest package index (number of Dependency entries)
MaxDeps == 2
\* the longest requirement list
MaxReqs == 2
MaxVersions == 4
MaxId == 5
MaxLines == 2
MaxLits == 3

\* a nil package, a nil report, no value
Nil == [nil |-> TRUE]

(***************************************************************************)
(* Packages (doc.go: Package, NewPackage, PackageName).                    *)
(***************************************************************************)
NewPackage(productName, version) == [product |-> productName, version |-> version]

ProductName(p) == p.product

\* fmt.Sprintf("%s-%s", p.product, p.version)
PackageName(p) == p.product \o "-" \o p.version

\* Dependency{Target, Requires}; Requires is a sequence of groups, each group
\* a sequence of packages
Dep(target, requires) == [Target |-> target, Requires |-> requires, RequiresNil |-> FALSE]

\* Dependency{Target, nil}
DepNil(target) == [Target |-> target, Requires |-> << >>, RequiresNil |-> TRUE]

A1 == NewPackage("A", "1")
A2 == NewPackage("A", "2")
B1 == NewPackage("B", "1")
B2 == NewPackage("B", "2")
C1 == NewPackage("C", "1")
B3 == NewPackage("B", "3")
B4 == NewPackage("B", "4")

\* The Dependency entries the indexes of the model are drawn from: a chain,
\* alternatives of one product, two groups and a cycle, a second entry for
\* the same target, a target without requirements, an empty group.
Catalog ==
    << Dep(A2, << <<B2>> >>),
       Dep(A1, << <<B1, B2>> >>),
       Dep(B2, << <<C1>>, <<A2>> >>),
       Dep(A1, << <<B2>> >>),
       DepNil(B1),
       Dep(B1, << << >> >>) >>

RECURSIVE Pick(_, _)
\* the entries of seq whose position is in the set pos, in order
Pick(seq, pos) ==
    IF seq = << >> THEN << >>
    ELSE LET n == Len(seq)
             rest == Pick(SubSeq(seq, 1, n - 1), pos)
         IN  IF n \in pos THEN Append(rest, seq[n]) ELSE rest

\* the indexes a caller may pass: up to MaxDeps entries of the catalog
Indexes ==
    { Pick(Catalog, pos) : pos \in { q \in SUBSET (1 .. Len(Catalog)) : Cardinality(q) <= MaxDeps } }

\* the packages a caller requires; an index need not mention them
ReqUniverse == {A1, B1}

\* the requirement lists a caller may pass (Packages, a slice)
Requirements ==
    UNION { [1 .. n -> ReqUniverse] : n \in 0 .. MaxReqs }

\* indexes with up to MaxVersions versions of one product: a target with one
\* group of distinct versions of B, alone or before one more entry
Versions == {B1, B2, B3, B4}

VersionGroups ==
    { g \in UNION { [1 .. n -> Versions] : n \in 0 .. MaxVersions } :
        \A i, j \in 1 .. Len(g) : g[i] = g[j] => i = j }

WideIndexes ==
    { << Dep(A1, << g >>) >> \o rest :
        g \in VersionGroups,
        rest \in { << >>, << DepNil(B3) >>, << Dep(C1, << <<B4, B1>> >>) >> } }

\* the packages a caller passes to RequireTemp
TempUniverse == {A2}

(***************************************************************************)
(* stringIdMap (resolver.go).                                              *)
(***************************************************************************)
newStringIdMap == [i_map |-> << >>, s_map |-> << >>, i |-> 0]

\* stringIdMap.Len
IdMapLen(m) == Cardinality(DOMAIN m.s_map)

\* StringToId that interns the empty name as well
Intern_emptyName(m, s) ==
    IF s \in DOMAIN m.s_map THEN m
    ELSE [i_map |-> ((m.i + 1) :> s) @@ m.i_map,
          s_map |-> (s :> (m.i + 1)) @@ m.s_map,
          i     |-> m.i + 1]

\* the map after StringToId(s)
Intern(m, s) ==
    IF s = "" THEN m
    ELSE IF s \in DOMAIN m.s_map THEN m
    ELSE [i_map |-> ((m.i + 1) :> s) @@ m.i_map,
          s_map |-> (s :> (m.i + 1)) @@ m.s_map,
          i     |-> m.i + 1]

\* the id StringToId(s) returns
StringToId(m, s) ==
    IF s = "" THEN 0
    ELSE IF s \in DOMAIN m.s_map THEN m.s_map[s]
    ELSE m.i + 1

\* GetId that counts the ids from 0
GetId_offByOne(m, s) ==
    IF s \in DOMAIN m.s_map THEN [id |-> m.s_map[s] - 1, err |-> FALSE] ELSE [id |-> 0, err |-> TRUE]

\* GetId: the id, or 0 and an error
GetId(m, s) ==
    IF s \in DOMAIN m.s_map THEN [id |-> m.s_map[s], err |-> FALSE] ELSE [id |-> 0, err |-> TRUE]

IdToString(m, i) ==
    LET a == IF i < 0 THEN i * (-1) ELSE i
    IN  IF a \in DOMAIN m.i_map THEN m.i_map[a] ELSE ""

(***************************************************************************)
(* ProductMap (doc.go).                                                    *)
(***************************************************************************)
NewProductMap == [prods |-> << >>, pkgs |-> << >>]

ProductMapAdd(pm, p) ==
    LET prodName == ProductName(p)
        pkgName  == PackageName(p)
        set == IF prodName \in DOMAIN pm.prods
               THEN (pkgName :> p) @@ [k \in DOMAIN pm.prods[prodName] \ {pkgName} |-> pm.prods[prodName][k]]
               ELSE (pkgName :> p)
    IN  [prods |-> (prodName :> set) @@ [k \in DOMAIN pm.prods \ {prodName} |-> pm.prods[k]],
         pkgs  |-> (pkgName :> p) @@ [k \in DOMAIN pm.pkgs \ {pkgName} |-> pm.pkgs[k]]]

RECURSIVE MapOrder(_)
\* the order in which a range loop visits the keys of a Go map: unspecified;
\* some order of the key set
MapOrder(keys) ==
    IF keys = {} THEN << >>
    ELSE LET k == CHOOSE x \in keys : TRUE
         IN  <<k>> \o MapOrder(keys \ {k})

\* ProductMap.Packages(productName): the packages of the product (nil, the
\* empty list, for a product the map does not hold)
ProductMapPackages(pm, productName) ==
    IF productName \notin DOMAIN pm.prods THEN << >>
    ELSE LET set == pm.prods[productName]
             ord == MapOrder(DOMAIN set)
         IN  [k \in 1 .. Len(ord) |-> set[ord[k]]]

\* ProductMap.PackageByName: the package, or Nil with an error
PackageByName(pm, packageName) ==
    IF packageName \in DOMAIN pm.pkgs THEN pm.pkgs[packageName] ELSE Nil

(***************************************************************************)
(* The SAT engine behind r.solver (pigosat over picosat): an incremental   *)
(* solver with assumptions that hold for one Solve.                        *)
(***************************************************************************)
Unknown == "Unknown"
Satisfiable == "Satisfiable"
Unsatisfiable == "Unsatisfiable"

\* pigosat.New: no clause, no variable, nothing assumed, never solved
NewSolver == [clauses |-> << >>, nvars |-> 0, assumed |-> {}, res |-> Unknown, failed |-> {}]

Abs(l) == IF l < 0 THEN 0 - l ELSE l

Max(a, b) == IF a >= b THEN a ELSE b

\* Adjust(n): at least n variables
SolverAdjust(s, n) == [s EXCEPT !.nvars = Max(@, n)]

RECURSIVE MaxVar(_)
MaxVar(lits) ==
    IF lits = << >> THEN 0 ELSE Max(Abs(Head(lits)), MaxVar(Tail(lits)))

RECURSIVE FormulaMaxVar(_)
FormulaMaxVar(f) ==
    IF f = << >> THEN 0 ELSE Max(MaxVar(Head(f)), FormulaMaxVar(Tail(f)))

\* AddClauses(formula)
SolverAddClauses(s, formula) ==
    [s EXCEPT !.clauses = @ \o formula, !.nvars = Max(@, FormulaMaxVar(formula))]

\* Assume(lit): one more assumption for the next Solve. The first Assume
\* after a Solve drops what the engine kept of that Solve's failed
\* assumptions; the status of the last Solve stays.
SolverAssume(s, lit) ==
    [s EXCEPT !.assumed = @ \cup {lit}, !.nvars = Max(@, Abs(lit)), !.failed = {}]

\* the literal l under the assignment m (variable -> BOOLEAN)
LitTrue(m, l) == IF l > 0 THEN m[l] ELSE ~m[0 - l]

ClauseTrue(m, c) == \E k \in 1 .. Len(c) : c[k] # 0 /\ LitTrue(m, c[k])

\* the assignments of variables 1..nvars that satisfy every clause and
\* every assumption
Models(s, assumptions) ==
    { m \in [1 .. s.nvars -> BOOLEAN] :
        /\ \A k \in 1 .. Len(s.clauses) : ClauseTrue(m, s.clauses[k])
        /\ \A a \in assumptions : LitTrue(m, a) }

\* the variables that occur in some clause
ClauseVars(s) == { Abs(s.clauses[k][j]) : <<k, j>> \in { <<k, j>> \in (1 .. Len(s.clauses)) \X (1 .. s.nvars + 1) : j <= Len(s.clauses[k]) } }

\* the sets FailedAssumptions may report after an unsatisfiable Solve: the
\* assumptions the engine used to derive the conflict, a subset of the
\* assumptions that is unsatisfiable with the clauses; the engine derives
\* through clauses only, so each of them occurs in a clause
FailedSets(s, assumptions) ==
    { F \in SUBSET { a \in assumptions : Abs(a) \in ClauseVars(s) } : Models(s, F) = {} }

(***************************************************************************)
(* The encoder: Resolver.Initialize, buildConflictClauses, numCombos.      *)
(***************************************************************************)
RECURSIVE MulRange(_, _)
\* big.Int.MulRange(a, b): the product of a..b, 1 when a > b
MulRange(a, b) == IF a > b THEN 1 ELSE b * MulRange(a, b - 1)

numCombos(n) == MulRange(1, n) \div (MulRange(1, n - 2) * 2)

RECURSIVE ConflictRows(_, _)
\* the clauses the two loops of buildConflictClauses write, in order
ConflictRows(lits, x) ==
    IF x > Len(lits) - 1 THEN << >>
    ELSE [y \in 1 .. (Len(lits) - x) |-> << 0 - lits[x], 0 - lits[x + y] >>] \o ConflictRows(lits, x + 1)

\* buildConflictClauses that pairs each literal with the next one only
buildConflictClauses_adjacent(lits) ==
    [x \in 1 .. (Len(lits) - 1) |-> << 0 - lits[x], 0 - lits[x + 1] >>]

\* buildConflictClauses with the inner loop one step short (y < count - 1)
buildConflictClauses_shortInner(lits) ==
    IF Len(lits) <= 1 THEN << >> ELSE ConflictRows(SubSeq(lits, 1, Len(lits) - 1), 1)

buildConflictClauses(lits) ==
    LET count == Len(lits)
    IN  IF count <= 1 THEN << >>
        ELSE LET num == numCombos(count)
                 rows == ConflictRows(lits, 1)
             IN  [i \in 1 .. num |-> IF i <= Len(rows) THEN rows[i] ELSE << >>]

RECURSIVE InternAll(_, _)
\* StringToId on the name of every package of the list, in order
InternAll(m, packs) ==
    IF packs = << >> THEN m
    ELSE InternAll(Intern(m, PackageName(Head(packs))), Tail(packs))

\* packagesToIds(a, idMap)
packagesToIds(a, m) == [k \in 1 .. Len(a) |-> StringToId(InternAll(m, SubSeq(a, 1, k - 1)), PackageName(a[k]))]

\* AddAll that registers no alternative
AddAll_none(pm, packs) == pm

RECURSIVE AddAll(_, _)
\* prodMap.Add of every package of the list
AddAll(pm, packs) ==
    IF packs = << >> THEN pm ELSE AddAll(ProductMapAdd(pm, Head(packs)), Tail(packs))

\* EncodeGroup with clause[0] = tid, the negation forgotten
EncodeGroup_positiveTarget(st, tid, constraints) ==
    [idMap |-> InternAll(st.idMap, constraints), prodMap |-> AddAll(st.prodMap, constraints),
     clauses |-> Append(st.clauses, << tid >> \o packagesToIds(constraints, st.idMap))]

\* one requirement group of a target: clause (-tid, id(p1), ..., id(pk))
EncodeGroup(st, tid, constraints) ==
    LET m == InternAll(st.idMap, constraints)
        clause == << 0 - tid >> \o packagesToIds(constraints, st.idMap)
    IN  [idMap |-> m, prodMap |-> AddAll(st.prodMap, constraints), clauses |-> Append(st.clauses, clause)]

\* EncodeGroups that stops after the first group
EncodeGroups_firstOnly(st, tid, groups) ==
    IF groups = << >> THEN st ELSE EncodeGroup(st, tid, Head(groups))

RECURSIVE EncodeGroups(_, _, _)
EncodeGroups(st, tid, groups) ==
    IF groups = << >> THEN st
    ELSE EncodeGroups(EncodeGroup(st, tid, Head(groups)), tid, Tail(groups))

\* EncodeDep that takes every Requires for nil
EncodeDep_skipGroups(st, dep) ==
    [idMap |-> Intern(st.idMap, PackageName(dep.Target)),
     prodMap |-> ProductMapAdd(st.prodMap, dep.Target), clauses |-> st.clauses]

\* one Dependency of the index (the body of the loop over r.index)
EncodeDep(st, dep) ==
    LET name == PackageName(dep.Target)
        tid == StringToId(st.idMap, name)
        st1 == [idMap |-> Intern(st.idMap, name), prodMap |-> ProductMapAdd(st.prodMap, dep.Target), clauses |-> st.clauses]
    IN  IF dep.RequiresNil THEN st1 ELSE EncodeGroups(st1, tid, dep.Requires)

RECURSIVE EncodeIndex(_, _)
EncodeIndex(st, deps) ==
    IF deps = << >> THEN st ELSE EncodeIndex(EncodeDep(st, Head(deps)), Tail(deps))

RECURSIVE EncodeConflicts(_, _)
\* the multi-version conflicts: for every product, a clause per pair of its packages
EncodeConflicts(st, names) ==
    IF names = << >> THEN st
    ELSE LET vers == ProductMapPackages(st.prodMap, Head(names))
             ids == packagesToIds(vers, st.idMap)
             st1 == [idMap |-> InternAll(st.idMap, vers), prodMap |-> st.prodMap,
                     clauses |-> st.clauses \o buildConflictClauses(ids)]
         IN  EncodeConflicts(st1, Tail(names))

ResolveSortNone == "ResolveSortNone"
ResolveSortLow == "ResolveSortLow"
ResolveSortHigh == "ResolveSortHigh"

\* the package names of the model in the byte order of Go strings
NameOrder == << "A-1", "A-2", "B-1", "B-2", "B-3", "B-4", "C-1" >>

\* Packages.Less: PackageName(p) < PackageName(q)
Less(p, q) ==
    \E i, j \in 1 .. Len(NameOrder) :
        NameOrder[i] = PackageName(p) /\ NameOrder[j] = PackageName(q) /\ i < j

\* flattenDependencies: every package the index refers to, target or
\* alternative, once per name; a Go map, so in no order
flattenDependencies(deps) ==
    { deps[k].Target : k \in 1 .. Len(deps) }
    \cup UNION { UNION { { deps[k].Requires[g][v] : v \in 1 .. Len(deps[k].Requires[g]) } :
                          g \in 1 .. Len(deps[k].Requires) } : k \in 1 .. Len(deps) }

RECURSIVE SortAscending(_)
\* sort.Sort(flat): ascending by package name
SortAscending(flat) ==
    IF flat = {} THEN << >>
    ELSE LET least == CHOOSE p \in flat : \A q \in flat : ~Less(q, p)
         IN  << least >> \o SortAscending(flat \ {least})

RECURSIVE Reverse(_)
Reverse(seq) == IF seq = << >> THEN << >> ELSE Append(Reverse(Tail(seq)), Head(seq))

\* Preload that sorts ascending whatever the mode
Preload_noReverse(m, deps, mode) ==
    IF mode = ResolveSortNone THEN m ELSE InternAll(m, SortAscending(flattenDependencies(deps)))

\* the preload of the stringIdMap: under a sort mode every package of the
\* index is interned in sorted order before any clause is built, descending
\* (sort.Reverse) for ResolveSortLow and ascending otherwise
Preload(m, deps, mode) ==
    IF mode = ResolveSortNone THEN m
    ELSE IF mode = ResolveSortLow
         THEN InternAll(m, Reverse(SortAscending(flattenDependencies(deps))))
         ELSE InternAll(m, SortAscending(flattenDependencies(deps)))

\* Resolver.Initialize: a new solver, new maps, and the clauses of the index
Initialize(idx, mode) ==
    LET st0 == [idMap |-> Preload(newStringIdMap, idx, mode), prodMap |-> NewProductMap, clauses |-> << >>]
        st1 == EncodeIndex(st0, idx)
        st2 == EncodeConflicts(st1, MapOrder(DOMAIN st1.prodMap.prods))
    IN  [idMap |-> st2.idMap, prodMap |-> st2.prodMap,
         solver |-> SolverAddClauses(SolverAdjust(NewSolver, IdMapLen(st2.idMap)), st2.clauses)]

(***************************************************************************)
(* The Relation constants (doc.go).                                        *)
(***************************************************************************)
Required == "Required"
ConflictsRel == "Conflicts"
Depends == "Depends"
Restricts == "Restricted"

(***************************************************************************)
(* The clausal core and its interpreter: cnfToPackageRelations.            *)
(* A line of the CNF text is a comment, the preamble "p cnf <vars> <n>",   *)
(* or a clause "l1 .. lk 0", held here as its fields.                      *)
(***************************************************************************)
CommentLine == [kind |-> "c"]
PreambleLine(n) == [kind |-> "p", size |-> n]
ClauseLine(lits) == [kind |-> "clause", lits |-> lits]

RECURSIVE ClauseLines(_)
ClauseLines(clauses) ==
    IF clauses = << >> THEN << >>
    ELSE << ClauseLine(Head(clauses)) >> \o ClauseLines(Tail(clauses))

\* the texts WriteClausalCore may write after an unsatisfiable Solve: the
\* preamble and the clauses of a core, a selection of the clauses that is
\* unsatisfiable with the failed assumptions; the assumptions are not
\* written
WriteClausalCore(s) ==
    { << PreambleLine(Cardinality(pos)) >> \o ClauseLines(Pick(s.clauses, pos)) :
        pos \in { q \in SUBSET (1 .. Len(s.clauses)) :
                    Models([s EXCEPT !.clauses = Pick(s.clauses, q)], s.failed) = {} } }

RECURSIVE InsertInt(_, _)
InsertInt(sorted, x) ==
    IF sorted = << >> THEN << x >>
    ELSE IF x <= Head(sorted) THEN << x >> \o sorted
         ELSE << Head(sorted) >> \o InsertInt(Tail(sorted), x)

\* SortInts that leaves the literals as they were read
SortInts_unsorted(lits) == lits

RECURSIVE SortInts(_)
\* sort.Ints: ascending, so negative literals come first, the most negative
\* one at the head
SortInts(lits) ==
    IF lits = << >> THEN << >> ELSE InsertInt(SortInts(Tail(lits)), Head(lits))

RECURSIVE CountNegs(_)
CountNegs(lits) ==
    IF lits = << >> THEN 0
    ELSE (IF Head(lits) < 0 THEN 1 ELSE 0) + CountNegs(Tail(lits))

\* Relates with the two one-literal cases exchanged
Relates_swapped(lits, negs) ==
    IF Len(lits) = 1
    THEN (IF lits[1] > 0 THEN Restricts ELSE Required)
    ELSE IF negs = 1 THEN Depends
         ELSE IF negs > 1 THEN ConflictsRel
              ELSE ""

\* the classification of a clause by the number of its literals and of its
\* negative literals; "" where the code returns "Unhandled clause type"
Relates(lits, negs) ==
    IF Len(lits) = 1
    THEN (IF lits[1] > 0 THEN Required ELSE Restricts)
    ELSE IF negs = 1 THEN Depends
         ELSE IF negs > 1 THEN ConflictsRel
              ELSE ""

\* one clause line: the literals sorted, each mapped back to its package
ParseClause(m, pm, line) ==
    LET lits == SortInts(line.lits)
        negs == CountNegs(line.lits)
        paks == [k \in 1 .. Len(lits) |-> PackageByName(pm, IdToString(m, lits[k]))]
    IN  IF \E k \in 1 .. Len(lits) : paks[k] = Nil
        THEN [err |-> "Unexpected literal"]
        ELSE IF Relates(lits, negs) = ""
             THEN [err |-> "Unhandled clause type"]
             ELSE [err |-> "", rel |-> [Packages |-> paks, Relates |-> Relates(lits, negs)]]

RECURSIVE ScanLines(_, _, _, _, _)
\* the loop over the lines: rels is the slice made at the preamble, clause
\* the number of clause lines stored so far
ScanLines(m, pm, lines, rels, clause) ==
    IF lines = << >> THEN [rels |-> rels, err |-> ""]
    ELSE LET line == Head(lines)
         IN  IF line.kind = "c" THEN ScanLines(m, pm, Tail(lines), rels, clause)
             ELSE IF line.kind = "p"
                  THEN ScanLines(m, pm, Tail(lines), [k \in 1 .. line.size |-> Nil], clause)
                  ELSE LET c == ParseClause(m, pm, line)
                       IN  IF c.err # "" THEN [rels |-> << >>, err |-> c.err]
                           ELSE IF clause + 1 > Len(rels)
                                THEN [rels |-> << >>, err |-> "index out of range"]
                                ELSE ScanLines(m, pm, Tail(lines),
                                               [rels EXCEPT ![clause + 1] = c.rel], clause + 1)

\* Resolver.cnfToPackageRelations: the relations, or nil and an error
cnfToPackageRelations(m, pm, lines) == ScanLines(m, pm, lines, << >>, 0)

(***************************************************************************)
(* The Resolver.                                                           *)
(***************************************************************************)
VARIABLES
    index,      \* r.index
    requires,   \* r.requires
    idMap,      \* r.idMap
    prodMap,    \* r.prodMap
    solver,     \* r.solver
    solution,   \* r.solution
    conflicts,  \* r.conflicts, the cached report of DetailedConflicts
    sortMode,   \* r.sortMode
    call,       \* the last call of a function that is checked on its own, with
                \* its arguments; Nil when there was none
    result,     \* what that call returned; Nil when there was none
    \* the history of the calls, which the resolver does not keep
    op,         \* the last call made on the resolver
    ret,        \* what the most recent Resolve returned, Nil before any
    temps,      \* the packages passed to RequireTemp since the previous Resolve
                \* (after a Resolve: between the Resolve before it and it)
    pending,    \* the same, counted from the last Initialize if that came later
    assumedIn,  \* the literals assumed in the most recent Solve
    twice       \* "plain": the last two calls were both Resolve and no RequireTemp
                \* package was pending at the first; "temps": both Resolve, some
                \* was pending; "no" otherwise

vars == << index, requires, idMap, prodMap, solver, solution, conflicts,
           sortMode, call, result, op, ret, temps, pending, assumedIn, twice >>

\* the elements of a sequence
Range(seq) == { seq[k] : k \in 1 .. Len(seq) }

\* Resolver.Solution
Solution == solution

\* Resolver.Solved
Solved == solver.res = Satisfiable

\* Resolver.PackageByName
ResolverPackageByName(packageName) == PackageByName(prodMap, packageName)

RECURSIVE DecodeIds_offByOne(_, _, _)
\* DecodeIds that takes the ids to count from 0
DecodeIds_offByOne(m, pm, ids) ==
    IF ids = << >> THEN << >>
    ELSE << PackageByName(pm, IdToString(m, Head(ids) + 1)) >> \o DecodeIds_offByOne(m, pm, Tail(ids))

RECURSIVE DecodeIds(_, _, _)
\* the loop of Conflicts: id -> name -> package, a lookup error ignored (nil)
DecodeIds(m, pm, ids) ==
    IF ids = << >> THEN << >>
    ELSE << PackageByName(pm, IdToString(m, Head(ids))) >> \o DecodeIds(m, pm, Tail(ids))

\* Resolver.Conflicts: the failed assumptions as packages, in the order the
\* engine lists them
Conflicts == DecodeIds(idMap, prodMap, MapOrder(solver.failed))

\* Resolver.IsPackageNameConflict
IsPackageNameConflict(packageName) ==
    LET got == GetId(idMap, packageName)
    IN  IF got.err THEN FALSE ELSE got.id \in solver.failed

\* Resolver.IsPackageConflict
IsPackageConflict(p) == IsPackageNameConflict(PackageName(p))

\* the constructors: the fields set from the arguments, then Initialize
Constructed(idxs, reqs, mode) ==
    /\ index \in idxs
    /\ requires \in reqs
    /\ sortMode = mode
    /\ \E r \in {Initialize(index, mode)} :
           /\ idMap = r.idMap
           /\ prodMap = r.prodMap
           /\ solver = r.solver
    /\ solution = << >>
    /\ conflicts = Nil
    /\ op = "NewResolver"
    /\ ret = Nil
    /\ temps = {}
    /\ pending = {}
    /\ assumedIn = {}
    /\ twice = "no"

\* no function has been called on its own
NoCall == call = Nil /\ result = Nil

NewSortResolver(mode) == Constructed(Indexes, Requirements, mode) /\ NoCall

\* NewResolver(requires, index): sortMode is left at ResolveSortNone
NewResolver == NewSortResolver(ResolveSortNone)

Init == NewResolver

\* the history after a call that is not Resolve
NotResolve(name) ==
    /\ op' = name
    /\ twice' = "no"
    /\ temps' = IF op = "Resolve" THEN {} ELSE temps

\* the history after Initialize: nothing is pending in the new solver, which
\* has not solved yet
Fresh ==
    /\ pending' = {}
    /\ ret' = Nil
    /\ assumedIn' = {}

\* Initialize as SetRequirements and SetPackageIndex call it: solver and
\* maps are replaced, r.solution and r.conflicts are not touched
Reinitialize(idx) ==
    \E r \in {Initialize(idx, sortMode)} :
        /\ idMap' = r.idMap
        /\ prodMap' = r.prodMap
        /\ solver' = r.solver
        /\ UNCHANGED << solution, conflicts, sortMode, call, result >>

SetRequirements(reqs) ==
    /\ Reinitialize(index)
    /\ requires' = reqs
    /\ UNCHANGED index
    /\ NotResolve("SetRequirements")
    /\ Fresh

SetPackageIndex(idx) ==
    /\ index' = idx
    /\ Reinitialize(idx)
    /\ UNCHANGED requires
    /\ NotResolve("SetPackageIndex")
    /\ Fresh

\* RequireTemp that interns the name and forgets the Assume
RequireTemp_noAssume(p) ==
    /\ idMap' = Intern(idMap, PackageName(p))
    /\ UNCHANGED << index, requires, prodMap, solver, solution, conflicts, ret, assumedIn >>
    /\ UNCHANGED << sortMode, call, result >>
    /\ op' = "RequireTemp"
    /\ twice' = "no"
    /\ temps' = (IF op = "Resolve" THEN {} ELSE temps) \cup {p}
    /\ pending' = (IF op = "Resolve" THEN {} ELSE pending) \cup {p}

RequireTemp(p) ==
    /\ LET tid == StringToId(idMap, PackageName(p))
       IN  /\ idMap' = Intern(idMap, PackageName(p))
           /\ solver' = SolverAssume(solver, tid)
    /\ UNCHANGED << index, requires, prodMap, solution, conflicts, ret, assumedIn >>
    /\ UNCHANGED << sortMode, call, result >>
    /\ op' = "RequireTemp"
    /\ twice' = "no"
    /\ temps' = (IF op = "Resolve" THEN {} ELSE temps) \cup {p}
    /\ pending' = (IF op = "Resolve" THEN {} ELSE pending) \cup {p}

RECURSIVE AssumeAll(_, _, _)
\* the loop of addRequires: Assume(StringToId(name)) for every requirement
AssumeAll(m, s, packs) ==
    IF packs = << >> THEN s
    ELSE AssumeAll(Intern(m, PackageName(Head(packs))),
                   SolverAssume(s, StringToId(m, PackageName(Head(packs)))),
                   Tail(packs))

\* addRequires that pushes the requirements into a solver only before its
\* first Solve
addRequires_once(m, s, reqs) ==
    IF s.res = Unknown
    THEN [idMap |-> InternAll(m, reqs), solver |-> AssumeAll(m, s, reqs)]
    ELSE [idMap |-> m, solver |-> s]

\* addRequires that stops before the last requirement
addRequires_dropLast(m, s, reqs) ==
    [idMap |-> InternAll(m, SubSeq(reqs, 1, Len(reqs) - 1)),
     solver |-> AssumeAll(m, s, SubSeq(reqs, 1, Len(reqs) - 1))]

\* addRequires: the maps and the solver after it
addRequires(m, s, reqs) ==
    [idMap |-> InternAll(m, reqs), solver |-> AssumeAll(m, s, reqs)]

RECURSIVE Decode_skipUnknown(_, _, _, _, _)
\* Decode that skips a name the product map does not know
Decode_skipUnknown(m, pm, model, i, acc) ==
    IF i > Len(model) THEN [solution |-> acc, err |-> FALSE]
    ELSE IF model[i] /\ PackageByName(pm, IdToString(m, i)) # Nil
         THEN Decode_skipUnknown(m, pm, model, i + 1, Append(acc, PackageByName(pm, IdToString(m, i))))
         ELSE Decode_skipUnknown(m, pm, model, i + 1, acc)

RECURSIVE Decode(_, _, _, _, _)
\* the loop of Resolve over the model, from variable i on: the packages of
\* the variables set true, until a name the product map does not know
Decode(m, pm, model, i, acc) ==
    IF i > Len(model) THEN [solution |-> acc, err |-> FALSE]
    ELSE IF model[i]
         THEN LET pkg == PackageByName(pm, IdToString(m, i))
              IN  IF pkg = Nil THEN [solution |-> acc, err |-> TRUE]
                  ELSE Decode(m, pm, model, i + 1, Append(acc, pkg))
         ELSE Decode(m, pm, model, i + 1, acc)

\* the history after a Resolve
AfterResolve(s) ==
    /\ op' = "Resolve"
    /\ twice' = IF op # "Resolve" THEN "no" ELSE IF pending = {} THEN "plain" ELSE "temps"
    /\ temps' = IF op = "Resolve" THEN {} ELSE temps
    /\ pending' = IF op = "Resolve" THEN {} ELSE pending
    /\ assumedIn' = s.assumed
    /\ UNCHANGED << index, requires, prodMap, sortMode, call, result >>

\* Resolver.Resolve. Solve consumes the assumptions; the engine returns any
\* model of the clauses and assumptions, or Unsatisfiable and a set of
\* failed assumptions when there is none.
Resolve ==
    LET a == addRequires(idMap, solver, requires)
        s == a.solver
        done(res, failed) == [s EXCEPT !.assumed = {}, !.res = res, !.failed = failed]
    IN  /\ idMap' = a.idMap
        /\ conflicts' = Nil
        /\ AfterResolve(s)
        /\ \/ /\ Models(s, s.assumed) = {}
              /\ \E F \in FailedSets(s, s.assumed) : solver' = done(Unsatisfiable, F)
              /\ solution' = << >>
              /\ ret' = [ok |-> FALSE, err |-> FALSE]
           \/ \E model \in Models(s, s.assumed) :
                LET d == Decode(a.idMap, prodMap, model, 1, << >>)
                IN  /\ solver' = done(Satisfiable, {})
                    /\ solution' = d.solution
                    /\ ret' = [ok |-> ~d.err, err |-> d.err]

\* Resolver.DetailedConflicts: the empty list when Solved(), the cached
\* report when there is one, else the relations parsed from the clausal
\* core, which are cached. The engine writes a core only after an
\* unsatisfiable Solve; a call in another state is not taken.
DetailedConflicts ==
    /\ \/ Solved /\ UNCHANGED conflicts
       \/ ~Solved /\ conflicts # Nil /\ UNCHANGED conflicts
       \/ /\ ~Solved
          /\ conflicts = Nil
          /\ \E text \in WriteClausalCore(solver) :
                \E r \in {cnfToPackageRelations(idMap, prodMap, text)} :
                    conflicts' = IF r.err = "" THEN [rels |-> r.rels] ELSE Nil
    /\ UNCHANGED << index, requires, idMap, prodMap, solver, solution, sortMode, call,
                    result, op, ret, temps, pending, assumedIn, twice >>

\* what DetailedConflicts returns in the current state when it need not
\* ask the engine
DetailedConflictsReturn ==
    IF Solved THEN << >> ELSE conflicts.rels

Next ==
    \/ \E reqs \in Requirements : SetRequirements(reqs)
    \/ \E idx \in Indexes : SetPackageIndex(idx)
    \/ \E p \in TempUniverse : RequireTemp(p)
    \/ Resolve

Spec == Init /\ [][Next]_vars

\* the resolver with its conflict report: the calls above and
\* DetailedConflicts
NextDetailed ==
    \/ Next
    \/ DetailedConflicts

SpecDetailed == Init /\ [][NextDetailed]_vars

\* a resolver made by NewSortResolver and given new indexes
SortModes == {ResolveSortNone, ResolveSortLow, ResolveSortHigh}

InitSort == \E mode \in SortModes : NewSortResolver(mode)

NextSort == \E idx \in Indexes : SetPackageIndex(idx)

SpecSort == InitSort /\ [][NextSort]_vars

\* a resolver made by NewSortResolver under RequireTemp and Resolve calls
NextSortResolve ==
    \/ \E p \in TempUniverse : RequireTemp(p)
    \/ Resolve

SpecSortResolve == InitSort /\ [][NextSortResolve]_vars

\* a resolver made by NewResolver on an index with several versions of a
\* product, and given new such indexes
InitVersions == Constructed(WideIndexes, {<< >>}, ResolveSortNone) /\ NoCall

NextVersions == \E idx \in WideIndexes : SetPackageIndex(idx)

SpecVersions == InitVersions /\ [][NextVersions]_vars

\* the stringIdMap on its own: the map of a resolver with an empty index,
\* and calls of StringToId, GetId and IdToString
Names == {"", "a", "b", "c", "d"}

Ids == (0 - MaxId) .. MaxId

Untouched == UNCHANGED << index, requires, prodMap, solver, solution, conflicts, sortMode,
                          op, ret, temps, pending, assumedIn, twice >>

CallStringToId(s) ==
    /\ call' = [fn |-> "StringToId", s |-> s]
    /\ result' = [id |-> StringToId(idMap, s)]
    /\ idMap' = Intern(idMap, s)
    /\ Untouched

CallGetId(s) ==
    /\ call' = [fn |-> "GetId", s |-> s]
    /\ result' = GetId(idMap, s)
    /\ UNCHANGED idMap
    /\ Untouched

CallIdToString(i) ==
    /\ call' = [fn |-> "IdToString", i |-> i]
    /\ result' = [s |-> IdToString(idMap, i)]
    /\ UNCHANGED idMap
    /\ Untouched

InitIdMap == Constructed({<< >>}, {<< >>}, ResolveSortNone) /\ NoCall

NextIdMap ==
    \/ \E s \in Names : CallStringToId(s)
    \/ \E s \in Names : CallGetId(s)
    \/ \E i \in Ids : CallIdToString(i)

SpecIdMap == InitIdMap /\ [][NextIdMap]_vars

\* cnfToPackageRelations on its own: a resolver whose index gives A-2, B-2
\* and C-1 the ids 1, 2 and 3, and a CNF text of a preamble and up to
\* MaxLines comment or clause lines of up to MaxLits literals; no package
\* has the id 4
CoreIndex == << Dep(A2, << <<B2>> >>), Dep(B2, << <<C1>>, <<A2>> >>) >>

CoreLits == {0 - 3, 0 - 2, 0 - 1, 1, 2, 4}

CoreLines ==
    {CommentLine} \cup { ClauseLine(l) : l \in UNION { [1 .. n -> CoreLits] : n \in 0 .. MaxLits } }

CoreTexts ==
    { << PreambleLine(Cardinality({ k \in 1 .. Len(t) : t[k].kind = "clause" })) >> \o t :
        t \in UNION { [1 .. n -> CoreLines] : n \in 0 .. MaxLines } }

InitCore ==
    /\ Constructed({CoreIndex}, {<< >>}, ResolveSortNone)
    /\ call \in { [fn |-> "cnfToPackageRelations", stream |-> t] : t \in CoreTexts }
    /\ result = Nil

CallCnfToPackageRelations ==
    /\ result = Nil
    /\ result' = cnfToPackageRelations(idMap, prodMap, call.stream)
    /\ UNCHANGED << call, idMap >>
    /\ Untouched

NextCore == CallCnfToPackageRelations

SpecCore == InitCore /\ [][NextCore]_vars

(***************************************************************************)
(* The properties.                                                         *)
(***************************************************************************)
ReturnedTrue == op = "Resolve" /\ ret = [ok |-> TRUE, err |-> FALSE]

ReturnedFalse == op = "Resolve" /\ ret = [ok |-> FALSE, err |-> FALSE]

ReturnedError == op = "Resolve" /\ ret # Nil /\ ret.err

\* the packages an index mentions, as targets or as alternatives
IndexPackages(idx) ==
    { idx[k].Target : k \in 1 .. Len(idx) }
    \cup UNION { Range(idx[k].Requires[g]) : <<k, g>> \in { <<k, g>> \in (1 .. Len(idx)) \X (1 .. Len(Catalog)) : g <= Len(idx[k].Requires) } }

\* the packages of a selection are of pairwise different products
OnePerProduct(S) == \A p, q \in S : ProductName(p) = ProductName(q) => p = q

\* every requirement group of every selected target has a member selected
Closed(S, idx) ==
    \A k \in 1 .. Len(idx) :
        idx[k].Target \in S =>
            \A g \in 1 .. Len(idx[k].Requires) : Range(idx[k].Requires[g]) \cap S # {}

\* C1: after a Resolve that returned (true, nil), Solution() holds at most
\* one package per product name.
C1_AtMostOnePerProduct ==
    ReturnedTrue =>
        \A i, j \in 1 .. Len(Solution) :
            i # j => ProductName(Solution[i]) # ProductName(Solution[j])

\* a successful Resolve that selected a package of a product of which the
\* index has another version
C1_Witness ==
    /\ ReturnedTrue
    /\ \E i \in 1 .. Len(Solution) :
          Cardinality(DOMAIN prodMap.prods[ProductName(Solution[i])]) >= 2

\* C2: closure. After a Resolve that returned (true, nil), every requirement
\* group of every index entry whose target is in Solution() has a member
\* in Solution().
C2_Closure == ReturnedTrue => Closed(Range(Solution), index)

\* a successful Resolve whose solution holds a target that has two index
\* entries with a requirement group each
C2_Witness ==
    /\ ReturnedTrue
    /\ \E k, l \in 1 .. Len(index) :
          /\ k # l
          /\ index[k].Target = index[l].Target
          /\ index[k].Target \in Range(Solution)
          /\ Len(index[k].Requires) > 0
          /\ Len(index[l].Requires) > 0

\* the ids the name-id map gives a set of packages
IdsOf(packs) == { idMap.s_map[PackageName(p)] : p \in { q \in packs : PackageName(q) \in DOMAIN idMap.s_map } }

\* C3 as stated: after a Resolve that returned (true, nil), every requirement
\* and every package passed to RequireTemp since the previous Resolve is in
\* Solution().
C3_AssumptionsHonoured_AsStated ==
    ReturnedTrue => (Range(requires) \cup temps) \subseteq Range(Solution)

\* C3, amended: after a Resolve that returned (true, nil), every requirement
\* and every package passed to RequireTemp since the previous Resolve, or
\* since the last SetRequirements / SetPackageIndex if that came later, is
\* in Solution().
C3_AssumptionsHonoured ==
    ReturnedTrue => (Range(requires) \cup pending) \subseteq Range(Solution)

\* a successful Resolve under a requirement and a RequireTemp package
C3_Witness ==
    /\ ReturnedTrue
    /\ requires # << >>
    /\ pending # {}
    /\ ~(pending \subseteq Range(requires))

\* the names of a set of packages
NamesOf(packs) == { PackageName(p) : p \in packs }

\* a selection of index packages that holds the packages of must, at most
\* one package per product, and a member of every group of every selected
\* target
SelectionExists(must) ==
    \E S \in SUBSET IndexPackages(index) :
        must \subseteq S /\ OnePerProduct(S) /\ Closed(S, index)

C5_ConflictSubset ==
    ReturnedFalse =>
        /\ Range(Conflicts) \subseteq (Range(requires) \cup pending)
        /\ \A p \in Range(requires) : ~IsPackageConflict(p) => p \notin Range(Conflicts)

\* an unsatisfiable Resolve that lists a requirement and a RequireTemp
\* package and leaves out another requirement
C5_Witness ==
    /\ ReturnedFalse
    /\ Range(Conflicts) \cap Range(requires) # {}
    /\ Range(Conflicts) \cap (pending \ Range(requires)) # {}
    /\ Range(requires) \ Range(Conflicts) # {}

\* C6: after SetRequirements or SetPackageIndex and before the next Resolve
\* (no Resolve since the last Initialize), Solution() shows no solution of
\* an earlier configuration.
C6_ResetSemantics == ret = Nil => Solution = << >>

\* the packages assumed in the last Resolve that the index does not mention
FreeStanding == (Range(requires) \cup pending) \ IndexPackages(index)

\* C7 as stated: a Resolve with a requirement or RequireTemp package the
\* index does not mention returns (true, nil), and the package is in
\* Solution() though PackageByName does not find it.
C7_FreeStanding_AsStated ==
    (op = "Resolve" /\ FreeStanding # {}) =>
        /\ ReturnedTrue
        /\ \A p \in FreeStanding :
              p \in Range(Solution) /\ ResolverPackageByName(PackageName(p)) = Nil

\* C7, amended: such a Resolve never returns true. It returns false with an
\* error when the engine found the assumptions satisfiable and (false, nil)
\* when it did not; the package is not in Solution() and PackageByName does
\* not find it.
C7_FreeStanding ==
    (op = "Resolve" /\ FreeStanding # {}) =>
        /\ ~ret.ok
        /\ ret.err <=> Solved
        /\ \A p \in FreeStanding :
              p \notin Range(Solution) /\ ResolverPackageByName(PackageName(p)) = Nil

\* a Resolve with a package outside the index that decoded part of the
\* model before it returned the error
C7_Witness ==
    /\ ReturnedError
    /\ FreeStanding # {}
    /\ Solution # << >>

\* the names of the literals assumed in the last Solve
AssumedNames == { IdToString(idMap, a) : a \in assumedIn }

\* C8 as stated: the assumptions of a Resolve are the requirements and the
\* packages passed to RequireTemp since the previous Resolve.
C8_TempForOneResolve_AsStated ==
    op = "Resolve" => AssumedNames = NamesOf(Range(requires) \cup temps)

\* C8, amended: the assumptions of a Resolve are the requirements and the
\* packages passed to RequireTemp since the previous Resolve, or since the
\* last SetRequirements / SetPackageIndex if that came later.
C8_TempForOneResolve ==
    op = "Resolve" => AssumedNames = NamesOf(Range(requires) \cup pending)

\* the second of two Resolve calls in a row, the first of which had a
\* RequireTemp package among its assumptions: the second has the
\* requirements only
C8_Witness ==
    /\ twice = "temps"
    /\ requires # << >>
    /\ assumedIn # {}
    /\ \E p \in TempUniverse : PackageName(p) \in DOMAIN idMap.s_map /\ idMap.s_map[PackageName(p)] \notin assumedIn

C10_SolvedIsLastResult == Solved <=> (ret # Nil /\ ret.ok)

\* C11: Solution() is the package list of the last Resolve that returned
\* true: a Resolve that returns (false, nil) after one that returned true
\* on the same configuration leaves Solution() as it was.
C11_LastSuccessfulSolution ==
    [][(ret # Nil /\ ret.ok /\ ret' # Nil /\ ret' = [ok |-> FALSE, err |-> FALSE])
          => solution' = solution]_vars

\* the packages a caller may ask about
AskedPackages == {A1, A2, B1, B2, C1}

\* C12: after a Resolve that returned (false, nil), IsPackageConflict and
\* IsPackageNameConflict are true exactly for the packages whose id is a
\* failed assumption, which are exactly the packages Conflicts() lists, and
\* false for a name that was never interned.
C12_ConflictQueries ==
    (op = "Resolve" /\ ReturnedFalse) =>
        \A p \in AskedPackages :
            /\ IsPackageConflict(p) <=> p \in Range(Conflicts)
            /\ IsPackageNameConflict(PackageName(p)) <=>
                  \E id \in solver.failed : IdToString(idMap, id) = PackageName(p)
            /\ PackageName(p) \notin DOMAIN idMap.s_map => ~IsPackageNameConflict(PackageName(p))

\* an unsatisfiable Resolve with a failed assumption, an assumption that
\* did not fail and a package that was never interned
C12_Witness ==
    /\ op = "Resolve"
    /\ ReturnedFalse
    /\ \E p \in AskedPackages : IsPackageConflict(p)
    /\ \E p \in Range(requires) \cup pending : ~IsPackageConflict(p)
    /\ \E p \in AskedPackages : PackageName(p) \notin DOMAIN idMap.s_map

\* C13: a report DetailedConflicts returns from its cache belongs to the
\* most recent Resolve of the current requirements and index, and that
\* Resolve returned (false, nil); no report of an earlier Resolve, requirement
\* list or index is returned.
C13_NoStaleReport ==
    (~Solved /\ conflicts # Nil) => (ret # Nil /\ ret = [ok |-> FALSE, err |-> FALSE])

\* the id of a package of the index
IdOf(p) == idMap.s_map[PackageName(p)]

\* under a sort mode the packages of the index hold the ids 1..n, n the
\* number of packages the index refers to: they were interned before any
\* clause was built
PreloadedFirst ==
    { IdOf(p) : p \in IndexPackages(index) } = 1 .. Cardinality(IndexPackages(index))

\* C20 as stated: under a sort mode every package of the index is interned
\* before any clause is built; under ResolveSortHigh the package with the
\* greater name has the smaller id, under ResolveSortLow the package with
\* the lesser name has the smaller id.
C20_PreloadOrder_AsStated ==
    sortMode # ResolveSortNone =>
        /\ PreloadedFirst
        /\ \A p, q \in IndexPackages(index) :
              Less(p, q) => IF sortMode = ResolveSortHigh THEN IdOf(q) < IdOf(p)
                                                          ELSE IdOf(p) < IdOf(q)

\* C20, amended: under a sort mode every package of the index is interned
\* before any clause is built; under ResolveSortHigh the package with the
\* lesser name has the smaller id (ascending names), under ResolveSortLow
\* the package with the greater name has the smaller id (descending names).
C20_PreloadOrder ==
    sortMode # ResolveSortNone =>
        /\ PreloadedFirst
        /\ \A p, q \in IndexPackages(index) :
              Less(p, q) => IF sortMode = ResolveSortHigh THEN IdOf(p) < IdOf(q)
                                                          ELSE IdOf(q) < IdOf(p)

\* an index given to a ResolveSortLow resolver whose first entry is not the
\* package with the greatest name
C20_Witness ==
    /\ op = "SetPackageIndex"
    /\ sortMode = ResolveSortLow
    /\ Cardinality(IndexPackages(index)) >= 3
    /\ \E p \in IndexPackages(index) : Less(index[1].Target, p)

\* the clause of one requirement group of a target: the negated id of the
\* target, then the ids of the alternatives
GroupClause(target, group) ==
    << 0 - IdOf(target) >> \o [v \in 1 .. Len(group) |-> IdOf(group[v])]

RECURSIVE DependencyClauses(_)
\* one clause per requirement group of every entry, in index order
DependencyClauses(idx) ==
    IF idx = << >> THEN << >>
    ELSE [g \in 1 .. Len(Head(idx).Requires) |-> GroupClause(Head(idx).Target, Head(idx).Requires[g])]
         \o DependencyClauses(Tail(idx))

\* the targets of the index that have no requirement list in any entry
BareTargets ==
    { index[k].Target : k \in 1 .. Len(index) }
    \ { index[k].Target : k \in { j \in 1 .. Len(index) : index[j].Requires # << >> } }

\* C15: the clauses Initialize gives the solver start with exactly one
\* clause (-id(T), id(p1), ..., id(pk)) per requirement group of every
\* index entry and none for an entry without requirements, and what follows
\* are clauses of two negated literals; every target and alternative is
\* interned and found in the product map; a required target without
\* requirements is in the solution of a successful Resolve.
C15_DependencyClauses ==
    LET deps == DependencyClauses(index)
    IN  /\ \A p \in IndexPackages(index) :
              /\ PackageName(p) \in DOMAIN idMap.s_map
              /\ ResolverPackageByName(PackageName(p)) = p
        /\ Len(solver.clauses) >= Len(deps)
        /\ SubSeq(solver.clauses, 1, Len(deps)) = deps
        /\ \A k \in Len(deps) + 1 .. Len(solver.clauses) :
              /\ Len(solver.clauses[k]) = 2
              /\ solver.clauses[k][1] < 0
              /\ solver.clauses[k][2] < 0
        /\ ReturnedTrue => (BareTargets \cap Range(requires)) \subseteq Range(Solution)

\* a successful Resolve that requires a target without requirements, on an
\* index whose other entry has two requirement groups
C15_Witness ==
    /\ ReturnedTrue
    /\ BareTargets \cap Range(requires) # {}
    /\ \E k \in 1 .. Len(index) : Len(index[k].Requires) = 2
    /\ Solution # << >>

\* the clauses Initialize added after the dependency clauses
ConflictPart ==
    SubSeq(solver.clauses, Len(DependencyClauses(index)) + 1, Len(solver.clauses))

\* the packages of the index of one product
VersionsOf(productName) ==
    { p \in IndexPackages(index) : ProductName(p) = productName }

\* the positions of the conflict clauses over packages of one product
ClausesOf(productName) ==
    { k \in 1 .. Len(ConflictPart) :
        \E p \in VersionsOf(productName) : (0 - IdOf(p)) \in Range(ConflictPart[k]) }

\* C16: for every product with n packages in the index the conflict clauses
\* hold exactly one clause (-id(p), -id(q)) per unordered pair of distinct
\* packages of the product, n*(n-1)/2 clauses, none when n <= 1, and every
\* conflict clause is such a pair; buildConflictClauses returns
\* numCombos(n) = n*(n-1)/2 clauses for n >= 2 literals.
C16_PairwiseConflicts ==
    /\ \A k \in 1 .. Len(ConflictPart) :
          /\ Len(ConflictPart[k]) = 2
          /\ \E p, q \in IndexPackages(index) :
                /\ p # q
                /\ ProductName(p) = ProductName(q)
                /\ ConflictPart[k] \in { << 0 - IdOf(p), 0 - IdOf(q) >> }
    /\ \A p \in IndexPackages(index) :
          LET n == Cardinality(VersionsOf(ProductName(p)))
          IN  /\ Cardinality(ClausesOf(ProductName(p))) = (n * (n - 1)) \div 2
              /\ n >= 2 => numCombos(n) = (n * (n - 1)) \div 2
              /\ \A q \in VersionsOf(ProductName(p)) \ {p} :
                    Cardinality({ k \in 1 .. Len(ConflictPart) :
                                    Range(ConflictPart[k]) = { 0 - IdOf(p), 0 - IdOf(q) } }) = 1

\* an index with four versions of one product, six conflict clauses, and a
\* product with one version
C16_Witness ==
    /\ op = "SetPackageIndex"
    /\ Cardinality(VersionsOf("B")) = 4
    /\ Cardinality(VersionsOf("A")) = 1
    /\ Cardinality(ClausesOf("B")) = 6
    /\ ClausesOf("A") = {}

\* the two maps of the stringIdMap are inverses of each other, the ids are
\* 1..Len(), the empty name is not interned, and IdToString takes an id and
\* its negation to the same name
IdMapInvariant ==
    /\ \A s \in DOMAIN idMap.s_map : IdToString(idMap, idMap.s_map[s]) = s
    /\ \A i \in DOMAIN idMap.i_map : GetId(idMap, idMap.i_map[i]) = [id |-> i, err |-> FALSE]
    /\ { idMap.s_map[s] : s \in DOMAIN idMap.s_map } = 1 .. IdMapLen(idMap)
    /\ DOMAIN idMap.i_map = 1 .. IdMapLen(idMap)
    /\ "" \notin DOMAIN idMap.s_map
    /\ \A i \in Ids : IdToString(idMap, 0 - i) = IdToString(idMap, i)
    /\ (call # Nil /\ call.fn = "StringToId" /\ call.s = "") => result.id = 0

\* a call leaves every interned name its id, and StringToId gives a name
\* seen for the first time the id Len() + 1
IdMapStep ==
    /\ \A s \in DOMAIN idMap.s_map :
          s \in DOMAIN idMap'.s_map /\ idMap'.s_map[s] = idMap.s_map[s]
    /\ (call'.fn = "StringToId" /\ call'.s # "" /\ call'.s \notin DOMAIN idMap.s_map) =>
          /\ result'.id = IdMapLen(idMap) + 1
          /\ IdMapLen(idMap') = IdMapLen(idMap) + 1
    /\ (call'.fn = "StringToId" /\ call'.s \in DOMAIN idMap.s_map) =>
          result'.id = idMap.s_map[call'.s] /\ idMap' = idMap
    /\ call'.fn # "StringToId" => idMap' = idMap

\* C17: after any sequence of StringToId, GetId and IdToString calls the
\* name-to-id and id-to-name maps are mutual inverses, the ids are exactly
\* 1..Len() given in first-seen order, an interned name keeps its id, the
\* empty name returns 0 and is never interned, and IdToString(-i) equals
\* IdToString(i).
C17_NameIdMap == []IdMapInvariant /\ [][IdMapStep]_vars

\* four names interned, then StringToId of the empty name returned 0
C17_Witness ==
    /\ IdMapLen(idMap) = 4
    /\ call # Nil
    /\ call.fn = "StringToId"
    /\ call.s = ""
    /\ result.id = 0

\* the clause lines of the text that was read, in line order
ReadClauses == SelectSeq(call.stream, LAMBDA line : line.kind = "clause")

\* the package of a literal, Nil when its id is not mapped
PackageOf(lit) == ResolverPackageByName(IdToString(idMap, lit))

\* every literal of the line is the id of a package
KnownLits(line) == \A k \in 1 .. Len(line.lits) : PackageOf(line.lits[k]) # Nil

\* the positions of the negative literals of a line
NegativeAt(line) == { k \in 1 .. Len(line.lits) : line.lits[k] < 0 }

\* the relation a clause line stands for by its shape, "" for a shape that
\* has none
Shape(line) ==
    LET n == Len(line.lits)
        negs == Cardinality(NegativeAt(line))
    IN  IF n = 1 /\ negs = 0 THEN Required
        ELSE IF n = 1 /\ negs = 1 THEN Restricts
        ELSE IF n >= 2 /\ negs = 1 THEN Depends
        ELSE IF n >= 2 /\ negs >= 2 THEN ConflictsRel
        ELSE ""

\* C18: cnfToPackageRelations maps each clause line to exactly one
\* relation, in line order, by its shape: one positive literal Required,
\* one negative literal Restricted, two or more literals with one negative
\* Depends (the negated package first, then the positive alternatives),
\* two or more literals with two or more negatives Conflicts; a line of
\* another shape gives the error "Unhandled clause type"; comment lines
\* give no relation.
C18_CoreInterpreter ==
    (result # Nil /\ \A k \in 1 .. Len(ReadClauses) : KnownLits(ReadClauses[k])) =>
        IF \E k \in 1 .. Len(ReadClauses) : Shape(ReadClauses[k]) = ""
        THEN result.err = "Unhandled clause type"
        ELSE /\ result.err = ""
             /\ Len(result.rels) = Len(ReadClauses)
             /\ \A k \in 1 .. Len(ReadClauses) :
                   LET line == ReadClauses[k]
                       rel == result.rels[k]
                   IN  /\ rel.Relates = Shape(line)
                       /\ Len(rel.Packages) = Len(line.lits)
                       /\ Range(rel.Packages) = { PackageOf(line.lits[j]) : j \in 1 .. Len(line.lits) }
                       /\ Shape(line) = Depends =>
                             /\ \A j \in NegativeAt(line) : rel.Packages[1] = PackageOf(line.lits[j])
                             /\ \A j \in 2 .. Len(rel.Packages) :
                                   \E i \in (1 .. Len(line.lits)) \ NegativeAt(line) :
                                       rel.Packages[j] = PackageOf(line.lits[i])

\* a text with a comment line and a Depends clause whose negated literal is
\* not written first
C18_Witness ==
    /\ result # Nil
    /\ result.err = ""
    /\ Len(call.stream) = 3
    /\ \E k \in 1 .. Len(call.stream) : call.stream[k].kind = "c"
    /\ Len(result.rels) = 1
    /\ result.rels[1].Relates = Depends
    /\ Len(ReadClauses[1].lits) = 3
    /\ ReadClauses[1].lits[1] > 0

\* the greatest and the least id among the negated literals of a line
HighestNegated(line) == CHOOSE i \in { 0 - line.lits[k] : k \in NegativeAt(line) } :
                            \A k \in NegativeAt(line) : 0 - line.lits[k] <= i

LowestNegated(line) == CHOOSE i \in { 0 - line.lits[k] : k \in NegativeAt(line) } :
                           \A k \in NegativeAt(line) : 0 - line.lits[k] >= i

\* the relations read from the text that are Conflicts relations
ConflictRelations ==
    IF result = Nil \/ result.err # "" THEN {}
    ELSE { k \in 1 .. Len(result.rels) : result.rels[k].Relates = ConflictsRel }

\* C19 as stated: the first package of a Conflicts relation is the negated
\* package with the lowest id.
C19_ConflictSubject_AsStated ==
    \A k \in ConflictRelations :
        result.rels[k].Packages[1] = PackageOf(LowestNegated(ReadClauses[k]))

\* C19, amended: the first package of a Conflicts relation is the negated
\* package with the highest id; the remaining packages are those of the
\* other literals of the clause.
C19_ConflictSubject ==
    \A k \in ConflictRelations :
        LET line == ReadClauses[k]
            rel == result.rels[k]
        IN  /\ rel.Packages[1] = PackageOf(HighestNegated(line))
            /\ Len(rel.Packages) = Len(line.lits)
            /\ \A j \in 2 .. Len(rel.Packages) :
                  \E i \in 1 .. Len(line.lits) :
                      /\ rel.Packages[j] = PackageOf(line.lits[i])
                      /\ (line.lits[i] > 0 \/ 0 - line.lits[i] <= HighestNegated(line))

\* a Conflicts relation read from a clause of three distinct negated
\* literals written in ascending id order
C19_Witness ==
    /\ ConflictRelations # {}
    /\ \E k \in ConflictRelations :
          /\ ReadClauses[k].lits = << 0 - 1, 0 - 2, 0 - 3 >>
          /\ result.rels[k].Packages = << C1, B2, A2 >>

\* every name interned since Initialize is the name of a package of the
\* index: the requirements pushed by Resolve and the packages passed to
\* RequireTemp all occur in the index
OnlyIndexNames == DOMAIN idMap.s_map \subseteq NamesOf(IndexPackages(index))

\* C21: right after Initialize the interned names are the package names of
\* the product map; and when every requirement and every RequireTemp
\* package occurs in the index, Resolve returns no error and every package
\* of the solution is found by name.
C21_NoDecodeError ==
    /\ op = "NewResolver" => DOMAIN idMap.s_map = DOMAIN prodMap.pkgs
    /\ (op = "Resolve" /\ OnlyIndexNames) =>
          /\ ~ret.err
          /\ \A p \in Range(Solution) : ResolverPackageByName(PackageName(p)) = p

\* a successful Resolve of a sorting resolver with a requirement and a
\* RequireTemp package, all of the index
C21_Witness ==
    /\ ReturnedTrue
    /\ OnlyIndexNames
    /\ sortMode = ResolveSortLow
    /\ requires # << >>
    /\ pending # {}
    /\ Len(Solution) >= 2

=============================================================================
